---- MODULE Spec2Model ----
(***************************************************************************)
(* Logical -> physical page mapping of DeanSingh/auditor:                  *)
(*   bin/extract_hyperlinks.py      extract_hyperlinks_from_toc,           *)
(*                                  build_page_mapping                     *)
(*   bin/build_complete_mappings.py build_yours_mapping,                   *)
(*                                  build_theirs_mapping_from_hyperlinks   *)
(*                                                                         *)
(* A label is a sequence of one-character strings, so that strip, isdigit, *)
(* int, split and the two regular expressions are computed character by    *)
(* character as Python computes them.  A dict with integer keys is a       *)
(* function on a finite set of integers; the string-keyed range markers a  *)
(* dict holds beside them are a sequence in insertion order.               *)
(***************************************************************************)
EXTENDS Integers, Sequences, FiniteSets, TLC

VARIABLES
    fn,                \* the function being run
    pc,                \* where it stands
    hyperlinks,        \* the (link_text, physical_page) list
    mapping,           \* the dict under construction, integer keys
    markers,           \* its "_range_..." entries, in insertion order
    warnings,          \* the warnings printed so far
    complete_mapping,  \* the returned dict
    doc,               \* the document behind the fitz handle
    max_logical_page,  \* build_yours_mapping's parameter
    docOpen,           \* the handle is open
    offset             \* build_yours_mapping's offset (None until detected)

vars == <<fn, pc, hyperlinks, mapping, markers, warnings, complete_mapping,
          doc, max_logical_page, docOpen, offset>>

(***************************************************************************)
(* Bounds of the model.                                                    *)
(***************************************************************************)
MaxAnchors == 3
MaxFillLogical == 5
MaxFillPhysical == 5
MaxLinks == 2

(***************************************************************************)
(* Constants of the program.                                               *)
(***************************************************************************)
ScanWindowYours == 50
ScanWindowTheirs == 30
DefaultOffset == 142
DefaultMaxLogicalPage == 500
\* offset = None
NoOffset == -1

(***************************************************************************)
(* Python str methods and the regular expressions, on character sequences. *)
(***************************************************************************)
Digit == {"0", "1", "2", "3", "4", "5", "6", "7", "8", "9"}

DigitVal(c) ==
    CASE c = "0" -> 0 [] c = "1" -> 1 [] c = "2" -> 2 [] c = "3" -> 3
      [] c = "4" -> 4 [] c = "5" -> 5 [] c = "6" -> 6 [] c = "7" -> 7
      [] c = "8" -> 8 [] c = "9" -> 9

IsSpace(c) == c = " "

\* str.strip(): the text between the first and the last non-blank character.
strip(s) ==
    LET solid == {k \in 1..Len(s) : ~IsSpace(s[k])}
    IN  IF solid = {} THEN <<>>
        ELSE LET lo == CHOOSE k \in solid : \A j \in solid : k <= j
                 hi == CHOOSE k \in solid : \A j \in solid : k >= j
             IN  SubSeq(s, lo, hi)

\* str.isdigit(): non-empty and every character a digit.
isdigit(s) == Len(s) > 0 /\ \A k \in 1..Len(s) : s[k] \in Digit

\* int() of a digit string.
RECURSIVE int(_)
int(s) ==
    IF Len(s) = 0 THEN 0
    ELSE 10 * int(SubSeq(s, 1, Len(s) - 1)) + DigitVal(s[Len(s)])

endswith(s, c) == Len(s) > 0 /\ s[Len(s)] = c

\* s[:-1]
DropLast(s) == SubSeq(s, 1, Len(s) - 1)

Contains(s, c) == \E k \in 1..Len(s) : s[k] = c

\* Length of the longest prefix of s[from..] made of characters of set cs.
RECURSIVE RunLen(_, _, _)
RunLen(s, from, cs) ==
    IF from > Len(s) \/ s[from] \notin cs THEN 0
    ELSE 1 + RunLen(s, from + 1, cs)

\* re.match(r'^(\d+)\s*-\s*(\d+)$', s): the two groups, or no match.
RangeMatch(s) ==
    LET n1    == RunLen(s, 1, Digit)
        dash  == n1 + 1 + RunLen(s, n1 + 1, {" "})
        start == dash + 1 + RunLen(s, dash + 1, {" "})
        tail  == SubSeq(s, start, Len(s))
    IN  IF /\ n1 > 0
           /\ dash <= Len(s)
           /\ s[dash] = "-"
           /\ isdigit(tail)
        THEN [matched |-> TRUE, g1 |-> SubSeq(s, 1, n1), g2 |-> tail]
        ELSE [matched |-> FALSE, g1 |-> <<>>, g2 |-> <<>>]

\* re.match(r'^(\d+)', s): the leading run of digits, or no match.
LeadingDigits(s) ==
    LET n == RunLen(s, 1, Digit)
    IN  [matched |-> n > 0, g1 |-> SubSeq(s, 1, n)]

\* s.split(','): the pieces between the commas, empty pieces kept.
RECURSIVE split(_)
split(s) ==
    LET commas == {k \in 1..Len(s) : s[k] = ","}
    IN  IF commas = {} THEN <<s>>
        ELSE LET c == CHOOSE k \in commas : \A j \in commas : k <= j
             IN  <<SubSeq(s, 1, c - 1)>> \o split(SubSeq(s, c + 1, Len(s)))

(***************************************************************************)
(* dict operations.                                                        *)
(***************************************************************************)
EmptyMap == [k \in {} |-> 0]

\* d[k] = v
Put(d, k, v) == [x \in DOMAIN d \cup {k} |-> IF x = k THEN v ELSE d[x]]

\* d[f"_range_{start}"] = marker: a key already present keeps its position.
PutMarker(ms, m) ==
    IF \E k \in 1..Len(ms) : ms[k].start = m.start
    THEN [k \in 1..Len(ms) |-> IF ms[k].start = m.start THEN m ELSE ms[k]]
    ELSE Append(ms, m)

\* sorted(keys)
RECURSIVE sorted(_)
sorted(S) ==
    IF S = {} THEN <<>>
    ELSE LET lo == CHOOSE k \in S : \A j \in S : k <= j
         IN  <<lo>> \o sorted(S \ {lo})

(***************************************************************************)
(* Continuity interpolation: the gap-filling loop that ends both           *)
(* build_page_mapping and build_theirs_mapping_from_hyperlinks.            *)
(***************************************************************************)
\* Faulty variant: the comparison of the two differences is dropped.
ShouldInterpolateAnyGap(logical_diff, physical_diff) ==
    logical_diff > 1

\* if physical_diff == logical_diff and logical_diff > 1
ShouldInterpolate(logical_diff, physical_diff) ==
    physical_diff = logical_diff /\ logical_diff > 1

\* for logical in range(start_logical + 1, end_logical):
\*     complete_mapping[logical] = start_physical + (logical - start_logical)
InterpolateGap(cm, start_logical, end_logical, start_physical) ==
    LET inner == (start_logical + 1)..(end_logical - 1)
    IN  [x \in DOMAIN cm \cup inner |->
            IF x \in inner THEN start_physical + (x - start_logical) ELSE cm[x]]

\* The body of "for i in range(len(sorted_logical) - 1)", from index i on
\* (i is 1-based here).
RECURSIVE FillLoop(_, _, _, _)
FillLoop(sorted_logical, numeric_mapping, i, cm) ==
    IF i > Len(sorted_logical) - 1 THEN cm
    ELSE LET start_logical  == sorted_logical[i]
             end_logical    == sorted_logical[i + 1]
             start_physical == numeric_mapping[start_logical]
             end_physical   == numeric_mapping[end_logical]
             withStart      == Put(cm, start_logical, start_physical)
             logical_diff   == end_logical - start_logical
             physical_diff  == end_physical - start_physical
             next == IF ShouldInterpolate(logical_diff, physical_diff)
                     THEN InterpolateGap(withStart, start_logical, end_logical,
                                         start_physical)
                     ELSE withStart
         IN  FillLoop(sorted_logical, numeric_mapping, i + 1, next)

\* Faulty variant: the last known key is not added.
AddLastEntryOmitted(cm, sorted_logical, numeric_mapping) ==
    cm

\* if sorted_logical: complete_mapping[last_logical] = numeric_mapping[last_logical]
AddLastEntry(cm, sorted_logical, numeric_mapping) ==
    IF Len(sorted_logical) > 0
    THEN LET last_logical == sorted_logical[Len(sorted_logical)]
         IN  Put(cm, last_logical, numeric_mapping[last_logical])
    ELSE cm

ContinuityFill(numeric_mapping) ==
    LET sorted_logical == sorted(DOMAIN numeric_mapping)
    IN  AddLastEntry(FillLoop(sorted_logical, numeric_mapping, 1, EmptyMap),
                     sorted_logical, numeric_mapping)

(***************************************************************************)
(* build_page_mapping (extract_hyperlinks.py).  A builder state is the     *)
(* dict's integer part, its range markers and the warnings printed so far. *)
(***************************************************************************)
NoState == [mapping |-> EmptyMap, markers |-> <<>>, warnings |-> <<>>]

\* page_nums = [int(p.strip()) for p in link_text.split(',') if p.strip().isdigit()]
PageNums(link_text) ==
    LET pieces == split(link_text)
        kept   == SelectSeq(pieces, LAMBDA p : isdigit(strip(p)))
    IN  [k \in 1..Len(kept) |-> int(strip(kept[k]))]

\* Faulty variant: the first number of a comma list is taken as the page.
CommaListFirstWins(st, link_text, physical_page) ==
    LET page_nums == PageNums(link_text)
    IN  IF Len(page_nums) >= 1
        THEN [st EXCEPT !.mapping = Put(@, page_nums[1], physical_page)]
        ELSE st

\* The branch taken for a label that holds a comma and matched no earlier rule.
CommaList(st, link_text, physical_page) ==
    LET page_nums == PageNums(link_text)
    IN  IF Len(page_nums) = 1
        THEN [st EXCEPT !.mapping = Put(@, page_nums[1], physical_page)]
        ELSE [st EXCEPT !.warnings =
                 Append(@, [kind |-> "multiple_pages", text |-> link_text,
                            page |-> physical_page])]

\* One iteration of "for link_text, physical_page in hyperlinks".
ScanAnchor(st, link) ==
    LET link_text     == strip(link.text)
        physical_page == link.page
        range_match   == RangeMatch(link_text)
    IN  IF range_match.matched
        THEN LET start_logical == int(range_match.g1)
                 end_logical   == int(range_match.g2)
             IN  [st EXCEPT
                    !.mapping = Put(@, start_logical, physical_page),
                    !.markers = PutMarker(@, [start |-> start_logical,
                                              end |-> end_logical,
                                              physical |-> physical_page])]
        ELSE IF isdigit(link_text)
        THEN [st EXCEPT !.mapping = Put(@, int(link_text), physical_page)]
        ELSE IF endswith(link_text, "-") /\ isdigit(strip(DropLast(link_text)))
        THEN [st EXCEPT !.mapping =
                 Put(@, int(strip(DropLast(link_text))), physical_page)]
        ELSE IF endswith(link_text, ",") /\ isdigit(strip(DropLast(link_text)))
        THEN [st EXCEPT !.mapping =
                 Put(@, int(strip(DropLast(link_text))), physical_page)]
        ELSE IF Contains(link_text, ",")
        THEN CommaList(st, link_text, physical_page)
        ELSE st

RECURSIVE ScanAll(_, _, _)
ScanAll(st, links, i) ==
    IF i > Len(links) THEN st
    ELSE ScanAll(ScanAnchor(st, links[i]), links, i + 1)

\* Faulty variant: the logical size is counted without its "+ 1".
RangeSizesMatchOffByOne(start_logical, end_logical, start_physical, end_physical) ==
    LET range_size          == end_logical - start_logical
        physical_range_size == end_physical - start_physical + 1
    IN  range_size = physical_range_size

\* if range_size == physical_range_size
RangeSizesMatch(start_logical, end_logical, start_physical, end_physical) ==
    LET range_size          == end_logical - start_logical + 1
        physical_range_size == end_physical - start_physical + 1
    IN  range_size = physical_range_size

\* for i in range(range_size): mapping[start_logical + i] = start_physical + i
InterpolateRange(m, start_logical, end_logical, start_physical) ==
    LET range_size == end_logical - start_logical + 1
        span       == {start_logical + i : i \in 0..(range_size - 1)}
    IN  [x \in DOMAIN m \cup span |->
            IF x \in span THEN start_physical + (x - start_logical) ELSE m[x]]

\* One iteration of "for key in range_keys", on the marker r.
ResolveMarker(st, r) ==
    IF r.end \in DOMAIN st.mapping
    THEN LET end_physical == st.mapping[r.end]
         IN  IF RangeSizesMatch(r.start, r.end, r.physical, end_physical)
             THEN [st EXCEPT !.mapping =
                      InterpolateRange(@, r.start, r.end, r.physical)]
             ELSE [st EXCEPT !.warnings =
                      Append(@, [kind |-> "range_size_mismatch",
                                 text |-> <<>>, page |-> r.physical])]
    ELSE st

RECURSIVE ResolveAll(_, _, _)
ResolveAll(st, range_keys, i) ==
    IF i > Len(range_keys) THEN st
    ELSE ResolveAll(ResolveMarker(st, range_keys[i]), range_keys, i + 1)

\* build_page_mapping as a function of its argument: the returned dict and
\* the warnings printed.
build_page_mapping(links) ==
    LET scanned  == ScanAll(NoState, links, 1)
        resolved == ResolveAll(scanned, scanned.markers, 1)
    IN  [result   |-> ContinuityFill(resolved.mapping),
         warnings |-> resolved.warnings]

(***************************************************************************)
(* The mapping stage of build_theirs_mapping_from_hyperlinks               *)
(* (build_complete_mappings.py).                                           *)
(***************************************************************************)
\* One iteration of "for link_text, physical_page in hyperlinks".
TheirsScanAnchor(st, link) ==
    LET link_text     == strip(link.text)
        physical_page == link.page
    IN  IF isdigit(link_text)
        THEN [st EXCEPT !.mapping = Put(@, int(link_text), physical_page)]
        ELSE IF endswith(link_text, "-") /\ isdigit(DropLast(link_text))
        THEN LET logical == int(DropLast(link_text))
             IN  [st EXCEPT !.markers =
                     PutMarker(@, [start |-> logical, end |-> logical,
                                   physical |-> physical_page])]
        ELSE LET match == LeadingDigits(link_text)
             IN  IF match.matched
                 THEN [st EXCEPT !.mapping = Put(@, int(match.g1), physical_page)]
                 ELSE st

RECURSIVE TheirsScanAll(_, _, _)
TheirsScanAll(st, links, i) ==
    IF i > Len(links) THEN st
    ELSE TheirsScanAll(TheirsScanAnchor(st, links[i]), links, i + 1)

\* for key, (start_logical, start_physical) in range_starts.items():
\*     mapping[start_logical] = start_physical; del mapping[key]
RECURSIVE ApplyRangeStarts(_, _, _)
ApplyRangeStarts(m, range_starts, i) ==
    IF i > Len(range_starts) THEN m
    ELSE ApplyRangeStarts(Put(m, range_starts[i].start, range_starts[i].physical),
                          range_starts, i + 1)

build_theirs_mapping(links) ==
    LET scanned == TheirsScanAll(NoState, links, 1)
    IN  ContinuityFill(ApplyRangeStarts(scanned.mapping, scanned.markers, 1))

(***************************************************************************)
(* Inputs.                                                                 *)
(***************************************************************************)
\* The link texts tried: a single page, a range start, a page with a trailing
\* comma, two explicit ranges, a comma list and a number with a suffix.
Labels ==
    { <<"1">>, <<"2">>, <<"3">>,
      <<"2", "-">>,
      <<"3", ",">>,
      <<"1", "-", "3">>, <<"2", " ", "-", " ", "3">>,
      <<"1", ",", " ", "2", ",", " ", "3">>,
      <<"2", "a">> }

\* The 1-based destinations tried.
PhysicalPages == {1, 2, 3}

Anchors == [text : Labels, page : PhysicalPages]

\* str(n) of a non-negative integer.
DigitChar(d) ==
    CASE d = 0 -> "0" [] d = 1 -> "1" [] d = 2 -> "2" [] d = 3 -> "3"
      [] d = 4 -> "4" [] d = 5 -> "5" [] d = 6 -> "6" [] d = 7 -> "7"
      [] d = 8 -> "8" [] d = 9 -> "9"

RECURSIVE str(_)
str(n) == IF n < 10 THEN <<DigitChar(n)>> ELSE Append(str(n \div 10), DigitChar(n % 10))

\* The single-page anchors that leave the dict m behind.
AnchorsOf(m) ==
    LET keys == sorted(DOMAIN m)
    IN  [k \in 1..Len(keys) |-> [text |-> str(keys[k]), page |-> m[keys[k]]]]

NoDoc == [pages |-> <<>>]

(***************************************************************************)
(* The mapping builders as state machines.                                 *)
(***************************************************************************)
Builders == {"build_page_mapping", "build_theirs_mapping_from_hyperlinks"}

Init ==
    /\ fn \in Builders
    /\ \E n \in 0..MaxAnchors : hyperlinks \in [1..n -> Anchors]
    /\ pc = "scan"
    /\ mapping = EmptyMap
    /\ markers = <<>>
    /\ warnings = <<>>
    /\ complete_mapping = EmptyMap
    /\ doc = NoDoc
    /\ max_logical_page = 0
    /\ docOpen = FALSE
    /\ offset = NoOffset

\* build_page_mapping: the scan of the hyperlinks.
ScanHyperlinks ==
    /\ fn = "build_page_mapping"
    /\ pc = "scan"
    /\ LET st == ScanAll(NoState, hyperlinks, 1)
       IN  /\ mapping' = st.mapping
           /\ markers' = st.markers
           /\ warnings' = st.warnings
           /\ pc' = IF st.markers = <<>> THEN "fill" ELSE "ranges"
    /\ UNCHANGED <<fn, hyperlinks, complete_mapping, doc, max_logical_page,
                   docOpen, offset>>

\* build_page_mapping: one range marker resolved and deleted.
ResolveRange ==
    /\ fn = "build_page_mapping"
    /\ pc = "ranges"
    /\ markers # <<>>
    /\ LET st == ResolveMarker([mapping |-> mapping, markers |-> markers,
                                warnings |-> warnings], Head(markers))
       IN  /\ mapping' = st.mapping
           /\ warnings' = st.warnings
           /\ markers' = Tail(markers)
           /\ pc' = IF Tail(markers) = <<>> THEN "fill" ELSE "ranges"
    /\ UNCHANGED <<fn, hyperlinks, complete_mapping, doc, max_logical_page,
                   docOpen, offset>>

\* build_page_mapping: the gap filling and the return.
FillGaps ==
    /\ fn = "build_page_mapping"
    /\ pc = "fill"
    /\ complete_mapping' = ContinuityFill(mapping)
    /\ pc' = "done"
    /\ UNCHANGED <<fn, hyperlinks, mapping, markers, warnings, doc,
                   max_logical_page, docOpen, offset>>

\* build_theirs_mapping_from_hyperlinks: the scan of the hyperlinks.
TheirsScanHyperlinks ==
    /\ fn = "build_theirs_mapping_from_hyperlinks"
    /\ pc = "scan"
    /\ LET st == TheirsScanAll(NoState, hyperlinks, 1)
       IN  /\ mapping' = st.mapping
           /\ markers' = st.markers
    /\ pc' = "range_starts"
    /\ UNCHANGED <<fn, hyperlinks, warnings, complete_mapping, doc,
                   max_logical_page, docOpen, offset>>

\* build_theirs_mapping_from_hyperlinks: the range starts written back.
TheirsRangeStarts ==
    /\ fn = "build_theirs_mapping_from_hyperlinks"
    /\ pc = "range_starts"
    /\ mapping' = ApplyRangeStarts(mapping, markers, 1)
    /\ markers' = <<>>
    /\ pc' = "fill"
    /\ UNCHANGED <<fn, hyperlinks, warnings, complete_mapping, doc,
                   max_logical_page, docOpen, offset>>

\* build_theirs_mapping_from_hyperlinks: the gap filling and the return.
TheirsFillGaps ==
    /\ fn = "build_theirs_mapping_from_hyperlinks"
    /\ pc = "fill"
    /\ complete_mapping' = ContinuityFill(mapping)
    /\ pc' = "done"
    /\ UNCHANGED <<fn, hyperlinks, mapping, markers, warnings, doc,
                   max_logical_page, docOpen, offset>>

Next ==
    \/ ScanHyperlinks
    \/ ResolveRange
    \/ FillGaps
    \/ TheirsScanHyperlinks
    \/ TheirsRangeStarts
    \/ TheirsFillGaps

Spec == Init /\ [][Next]_vars

\* build_page_mapping alone.
InitPageMapping == Init /\ fn = "build_page_mapping"

NextPageMapping ==
    \/ ScanHyperlinks
    \/ ResolveRange
    \/ FillGaps

SpecPageMapping == InitPageMapping /\ [][NextPageMapping]_vars

(***************************************************************************)
(* The gap filling on its own: either builder stands at its last step with *)
(* an arbitrary sparse dict, left there by single-page anchors.            *)
(***************************************************************************)
InitFill ==
    /\ fn \in Builders
    /\ \E S \in SUBSET (1..MaxFillLogical) : mapping \in [S -> 1..MaxFillPhysical]
    /\ hyperlinks = AnchorsOf(mapping)
    /\ pc = "fill"
    /\ markers = <<>>
    /\ warnings = <<>>
    /\ complete_mapping = EmptyMap
    /\ doc = NoDoc
    /\ max_logical_page = 0
    /\ docOpen = FALSE
    /\ offset = NoOffset

NextFill ==
    \/ FillGaps
    \/ TheirsFillGaps

SpecFill == InitFill /\ [][NextFill]_vars

(***************************************************************************)
(* The document scans.  A document is its pages, a page the links          *)
(* get_links() lists for it; a link's text is what get_text() returns for  *)
(* its rectangle.  A link's 'page' entry is an int, a str, or absent.      *)
(***************************************************************************)
Link(kind, ptype, pint, pstr, text) ==
    [kind |-> kind, ptype |-> ptype, pint |-> pint, pstr |-> pstr, text |-> text]

\* The links tried.
Links ==
    { Link("LINK_GOTO", "int", 142, <<>>, <<"1">>),
      Link("LINK_GOTO", "int", 143, <<>>, <<"1">>),
      Link("LINK_GOTO", "int", 4, <<>>, <<" ", "1", " ">>),
      Link("LINK_NAMED", "str", 0, <<"7">>, <<"1">>),
      Link("LINK_NAMED", "str", 0, <<"x">>, <<"1">>),
      Link("LINK_GOTO", "none", 0, <<>>, <<"1">>),
      Link("LINK_URI", "int", 2, <<>>, <<"1">>),
      Link("LINK_GOTO", "int", 5, <<>>, <<"2", "-">>),
      Link("LINK_GOTO", "int", 3, <<>>, <<"1", "1">>),
      Link("LINK_NAMED", "int", 9, <<>>, <<>>) }

\* The page counts tried, and the pages that may carry links: the first
\* pages and the pages at the edge of each scan window.
DocLens == {0, 2, ScanWindowYours + 1}

HotPages(n) ==
    {1, 2, ScanWindowTheirs, ScanWindowTheirs + 1,
     ScanWindowYours, ScanWindowYours + 1} \cap (1..n)

\* pl places its links in page order.
InPageOrder(pl) == \A a, b \in 1..Len(pl) : a < b => pl[a][1] <= pl[b][1]

\* The links pl places on page p, in order.
PageOf(pl, p) ==
    LET here == SelectSeq(pl, LAMBDA e : e[1] = p)
    IN  [k \in 1..Len(here) |-> here[k][2]]

\* The document of n pages that carries the links pl places.
DocOf(n, pl) == [pages |-> [p \in 1..n |-> PageOf(pl, p)]]

Min(a, b) == IF a <= b THEN a ELSE b

IsGotoLink(link) == link.kind \in {"LINK_GOTO", "LINK_NAMED"}

\* link.get('page', -1)
PageVal(link) == IF link.ptype = "none" THEN -1 ELSE link.pint

\* int(page_val) of a str: a ValueError unless it is an optionally signed
\* run of digits.
IntParses(s) ==
    \/ isdigit(s)
    \/ Len(s) > 1 /\ s[1] \in {"-", "+"} /\ isdigit(Tail(s))

IntOf(s) ==
    IF isdigit(s) THEN int(s)
    ELSE IF s[1] = "-" THEN 0 - int(Tail(s)) ELSE int(Tail(s))

\* Faulty variant: the 0-based page is taken as the destination, without its "+ 1".
DestPageZeroBased(link) ==
    IF link.kind = "LINK_GOTO" THEN PageVal(link)
    ELSE IF link.kind = "LINK_NAMED"
    THEN IF link.ptype = "str"
         THEN IF IntParses(link.pstr) THEN IntOf(link.pstr) ELSE -1
         ELSE PageVal(link)
    ELSE -1

\* The 1-based destination the three scans compute for a link, -1 or 0 when
\* there is none.
DestPage(link) ==
    IF link.kind = "LINK_GOTO" THEN PageVal(link) + 1
    ELSE IF link.kind = "LINK_NAMED"
    THEN IF link.ptype = "str"
         THEN IF IntParses(link.pstr) THEN IntOf(link.pstr) + 1 ELSE -1
         ELSE PageVal(link) + 1
    ELSE -1

\* The (link_text, dest_page) pairs one page appends to hyperlinks.
PageAnchors(links, needText) ==
    LET keep(link) == /\ IsGotoLink(link)
                      /\ DestPage(link) > 0
                      /\ (needText => strip(link.text) # <<>>)
        kept == SelectSeq(links, keep)
    IN  [k \in 1..Len(kept) |->
            [text |-> strip(kept[k].text), page |-> DestPage(kept[k])]]

\* for page_num in range(limit): ... hyperlinks.append(...), from page p on.
RECURSIVE CollectAnchors(_, _, _, _)
CollectAnchors(pages, p, limit, needText) ==
    IF p > limit THEN <<>>
    ELSE PageAnchors(pages[p], needText)
             \o CollectAnchors(pages, p + 1, limit, needText)

\* Faulty variant: the offset is the destination itself.
OffsetOfNoShift(dest_page) == dest_page

\* offset = dest_page - 1
OffsetOf(dest_page) == dest_page - 1

\* build_yours_mapping's "for link in links", from the k-th link on: the
\* offset at the break, or NoOffset.
RECURSIVE OffsetInPage(_, _)
OffsetInPage(links, k) ==
    IF k > Len(links) THEN NoOffset
    ELSE IF /\ IsGotoLink(links[k])
            /\ strip(links[k].text) = <<"1">>
            /\ DestPage(links[k]) > 0
         THEN OffsetOf(DestPage(links[k]))
         ELSE OffsetInPage(links, k + 1)

\* build_yours_mapping's "for page_num in range(min(50, len(doc)))", from
\* page p on.
RECURSIVE DetectOffset(_, _, _)
DetectOffset(pages, p, limit) ==
    IF p > limit THEN NoOffset
    ELSE LET found == OffsetInPage(pages[p], 1)
         IN  IF found # NoOffset THEN found
             ELSE DetectOffset(pages, p + 1, limit)

\* The pages a scan visits.
ScanLimit(f, d) ==
    IF f = "extract_hyperlinks_from_toc" THEN Len(d.pages)
    ELSE IF f = "build_yours_mapping" THEN Min(ScanWindowYours, Len(d.pages))
    ELSE Min(ScanWindowTheirs, Len(d.pages))

Scanners == {"extract_hyperlinks_from_toc", "build_yours_mapping",
             "build_theirs_mapping_from_hyperlinks"}

InitScan ==
    /\ fn \in Scanners
    /\ \E n \in DocLens, k \in 0..MaxLinks :
          \E pl \in [1..k -> HotPages(n) \X Links] :
              InPageOrder(pl) /\ doc = DocOf(n, pl)
    /\ max_logical_page \in IF fn = "build_yours_mapping"
                              THEN {2, DefaultMaxLogicalPage}
                              ELSE {0}
    /\ pc = "start"
    /\ docOpen = FALSE
    /\ offset = NoOffset
    /\ hyperlinks = <<>>
    /\ mapping = EmptyMap
    /\ markers = <<>>
    /\ warnings = <<>>
    /\ complete_mapping = EmptyMap

\* doc = fitz.open(pdf_path)
OpenDoc ==
    /\ pc = "start"
    /\ docOpen' = TRUE
    /\ pc' = "scanning"
    /\ UNCHANGED <<fn, hyperlinks, mapping, markers, warnings, complete_mapping,
                   doc, max_logical_page, offset>>

\* fitz.open raises: no handle was acquired.
OpenFails ==
    /\ pc = "start"
    /\ pc' = "raised"
    /\ UNCHANGED <<fn, hyperlinks, mapping, markers, warnings, complete_mapping,
                   doc, max_logical_page, docOpen, offset>>

\* extract_hyperlinks_from_toc: the scan of every page.
ExtractScan ==
    /\ fn = "extract_hyperlinks_from_toc"
    /\ pc = "scanning"
    /\ hyperlinks' = CollectAnchors(doc.pages, 1, ScanLimit(fn, doc), FALSE)
    /\ pc' = "scanned"
    /\ UNCHANGED <<fn, mapping, markers, warnings, complete_mapping, doc,
                   max_logical_page, docOpen, offset>>

\* build_yours_mapping: the scan of the first 50 pages, up to the break.
YoursScan ==
    /\ fn = "build_yours_mapping"
    /\ pc = "scanning"
    /\ offset' = DetectOffset(doc.pages, 1, ScanLimit(fn, doc))
    /\ pc' = "scanned"
    /\ UNCHANGED <<fn, hyperlinks, mapping, markers, warnings, complete_mapping,
                   doc, max_logical_page, docOpen>>

\* build_theirs_mapping_from_hyperlinks: the scan of the first 30 pages.
TheirsScan ==
    /\ fn = "build_theirs_mapping_from_hyperlinks"
    /\ pc = "scanning"
    /\ hyperlinks' = CollectAnchors(doc.pages, 1, ScanLimit(fn, doc), TRUE)
    /\ pc' = "scanned"
    /\ UNCHANGED <<fn, mapping, markers, warnings, complete_mapping, doc,
                   max_logical_page, docOpen, offset>>

\* page.get_links() or page.get_text() raises on a page the scan visits:
\* no handler is in the way, the exception leaves the function.
ServiceFails ==
    /\ pc = "scanning"
    /\ ScanLimit(fn, doc) >= 1
    /\ pc' = "raised"
    /\ UNCHANGED <<fn, hyperlinks, mapping, markers, warnings, complete_mapping,
                   doc, max_logical_page, docOpen, offset>>

\* doc.close(), and what follows it up to the next loop or the return.
CloseDoc ==
    /\ pc = "scanned"
    /\ docOpen' = FALSE
    /\ pc' = CASE fn = "extract_hyperlinks_from_toc" -> "returned"
               [] fn = "build_yours_mapping" -> "closed"
               [] fn = "build_theirs_mapping_from_hyperlinks" -> "scan"
    /\ UNCHANGED <<fn, hyperlinks, mapping, markers, warnings, complete_mapping,
                   doc, max_logical_page, offset>>

\* build_yours_mapping: the default offset, the mapping and the return.
YoursBuild ==
    /\ fn = "build_yours_mapping"
    /\ pc = "closed"
    /\ offset' = IF offset = NoOffset THEN DefaultOffset ELSE offset
    /\ warnings' = IF offset = NoOffset
                   THEN Append(warnings, [kind |-> "offset_not_detected",
                                          text |-> <<>>, page |-> DefaultOffset])
                   ELSE warnings
    /\ complete_mapping' = [logical \in 1..max_logical_page |-> logical + offset']
    /\ pc' = "returned"
    /\ UNCHANGED <<fn, hyperlinks, mapping, markers, doc, max_logical_page,
                   docOpen>>

NextScan ==
    \/ OpenDoc
    \/ OpenFails
    \/ ExtractScan
    \/ YoursScan
    \/ TheirsScan
    \/ ServiceFails
    \/ CloseDoc
    \/ YoursBuild
    \/ TheirsScanHyperlinks
    \/ TheirsRangeStarts
    \/ TheirsFillGaps

SpecScan == InitScan /\ [][NextScan]_vars

(***************************************************************************)
(* Vocabulary of the properties.                                           *)
(***************************************************************************)
\* seq without its i-th element.
RemoveAt(seq, i) == SubSeq(seq, 1, i - 1) \o SubSeq(seq, i + 1, Len(seq))

Max(S) == CHOOSE k \in S : \A j \in S : k >= j

\* The logical pages the builder f writes for the anchor a taken alone.
NamedKeys(f, a) ==
    IF f = "build_page_mapping"
    THEN DOMAIN ScanAnchor(NoState, a).mapping
    ELSE LET st == TheirsScanAnchor(NoState, a)
         IN  DOMAIN st.mapping \cup {st.markers[k].start : k \in 1..Len(st.markers)}

\* The positions of the anchors of links that name L, and the last of them.
Namers(f, links, L) == {j \in 1..Len(links) : L \in NamedKeys(f, links[j])}

AllNamed(f, links) == UNION {NamedKeys(f, links[j]) : j \in 1..Len(links)}

\* The dict "last anchor wins" gives on the pages the anchors name.
LastWriter(f, links) ==
    [L \in AllNamed(f, links) |-> links[Max(Namers(f, links, L))].page]

\* a and b are neighbours among the keys of m.
AdjacentKeys(m, a, b) ==
    /\ a \in DOMAIN m
    /\ b \in DOMAIN m
    /\ a < b
    /\ ~\E c \in DOMAIN m : a < c /\ c < b

\* a and b are neighbours whose logical and physical differences agree.
LinearGap(m, a, b) == AdjacentKeys(m, a, b) /\ m[b] - m[a] = b - a

\* The keys the linear rule synthesises between neighbours of m.
Synthesised(m) ==
    UNION {(p[1] + 1)..(p[2] - 1) :
              p \in {q \in (DOMAIN m) \X (DOMAIN m) : LinearGap(m, q[1], q[2])}}

\* The explicit-range anchors of links.
ExplicitRanges(links) ==
    {j \in 1..Len(links) : RangeMatch(strip(links[j].text)).matched}

\* A label made of two or more integers separated by commas.
IsCommaList(text) ==
    LET pieces == split(strip(text))
    IN  /\ Len(pieces) >= 2
        /\ \A k \in 1..Len(pieces) : isdigit(strip(pieces[k]))

\* The label t, already trimmed, matches one of the parser rules 1-5.
MatchesRules1to5(t) ==
    \/ RangeMatch(t).matched
    \/ isdigit(t)
    \/ endswith(t, "-") /\ isdigit(strip(DropLast(t)))
    \/ endswith(t, ",") /\ isdigit(strip(DropLast(t)))
    \/ Contains(t, ",") /\ \A k \in 1..Len(split(t)) : isdigit(strip(split(t)[k]))

(***************************************************************************)
(* C1.  The gap filling of build_page_mapping returns exactly the keys of  *)
(* the sparse mapping, values unchanged, and, between neighbouring keys La *)
(* < Lb with Pb - Pa = Lb - La, the entries La+k -> Pa+k; it holds no      *)
(* other key.                                                              *)
(***************************************************************************)
C1_FillIsExact ==
    (fn = "build_page_mapping" /\ pc = "done") =>
        /\ DOMAIN complete_mapping = DOMAIN mapping \cup Synthesised(mapping)
        /\ \A L \in DOMAIN mapping : complete_mapping[L] = mapping[L]
        /\ \A a, b \in DOMAIN mapping :
              LinearGap(mapping, a, b) =>
                  \A k \in 1..(b - a - 1) : complete_mapping[a + k] = mapping[a] + k

\* A filled gap and a gap left open in the same returned mapping.
C1_Witness ==
    /\ fn = "build_page_mapping"
    /\ pc = "done"
    /\ \E a, b \in DOMAIN mapping : LinearGap(mapping, a, b) /\ b - a > 1
    /\ \E a, b \in DOMAIN mapping :
          /\ AdjacentKeys(mapping, a, b)
          /\ b - a > 1
          /\ ~LinearGap(mapping, a, b)
          /\ \A L \in (a + 1)..(b - 1) : L \notin DOMAIN complete_mapping

(***************************************************************************)
(* C9.  The gap filling is idempotent: applied to its own output it        *)
(* returns that output, in both builders.                                  *)
(***************************************************************************)
C9_FillIdempotent ==
    pc = "done" => ContinuityFill(complete_mapping) = complete_mapping

\* The first pass added a key and left a gap open.
C9_Witness ==
    /\ pc = "done"
    /\ DOMAIN complete_mapping # DOMAIN mapping
    /\ \E a, b \in DOMAIN complete_mapping :
          AdjacentKeys(complete_mapping, a, b) /\ b - a > 1

(***************************************************************************)
(* C2.  As claimed: for an explicit-range anchor "L0-L1" with destination  *)
(* P0 and another anchor that maps L1 to P1, the returned mapping of       *)
(* build_page_mapping holds P0+(L-L0) for every L0 < L < L1 when           *)
(* L1-L0 = P1-P0, and otherwise holds no key strictly between L0 and L1    *)
(* that no anchor names.  Where several anchors name L1 the claim is read  *)
(* for the last of them only, the one whose destination the dict keeps.    *)
(***************************************************************************)
C2_AsClaimed ==
    (fn = "build_page_mapping" /\ pc = "done") =>
        \A r \in ExplicitRanges(hyperlinks) :
            LET m      == RangeMatch(strip(hyperlinks[r].text))
                L0     == int(m.g1)
                L1     == int(m.g2)
                P0     == hyperlinks[r].page
                others == Namers(fn, hyperlinks, L1) \ {r}
            IN  others # {} =>
                    LET P1 == hyperlinks[Max(others)].page
                    IN  IF L1 - L0 = P1 - P0
                        THEN \A L \in (L0 + 1)..(L1 - 1) :
                                 /\ L \in DOMAIN complete_mapping
                                 /\ complete_mapping[L] = P0 + (L - L0)
                        ELSE \A L \in (L0 + 1)..(L1 - 1) :
                                 L \in DOMAIN complete_mapping =>
                                     L \in AllNamed(fn, hyperlinks)

(***************************************************************************)
(* C2, amended.  For an anchor sequence with exactly one explicit-range    *)
(* anchor "L0-L1" (destination P0) and P1 the destination of the last      *)
(* other anchor that names L1: when L1-L0 = P1-P0 the returned mapping     *)
(* holds P0+(L-L0) for every L0 < L < L1; otherwise the range adds         *)
(* nothing, and every returned key strictly between L0 and L1 is a page an *)
(* anchor names, with its last destination, or a page the gap filling      *)
(* synthesised between two neighbouring named pages whose logical and      *)
(* physical differences agree.                                             *)
(***************************************************************************)
C2_SingleRange ==
    (/\ fn = "build_page_mapping"
     /\ pc = "done"
     /\ Cardinality(ExplicitRanges(hyperlinks)) = 1) =>
        LET r      == CHOOSE j \in ExplicitRanges(hyperlinks) : TRUE
            m      == RangeMatch(strip(hyperlinks[r].text))
            L0     == int(m.g1)
            L1     == int(m.g2)
            P0     == hyperlinks[r].page
            others == Namers(fn, hyperlinks, L1) \ {r}
            named  == LastWriter(fn, hyperlinks)
        IN  others # {} =>
                LET P1 == hyperlinks[Max(others)].page
                IN  IF L1 - L0 = P1 - P0
                    THEN \A L \in (L0 + 1)..(L1 - 1) :
                             /\ L \in DOMAIN complete_mapping
                             /\ complete_mapping[L] = P0 + (L - L0)
                    ELSE \A L \in (L0 + 1)..(L1 - 1) :
                             L \in DOMAIN complete_mapping =>
                                 \/ /\ L \in DOMAIN named
                                    /\ complete_mapping[L] = named[L]
                                 \/ \E a, b \in DOMAIN named :
                                       /\ LinearGap(named, a, b)
                                       /\ a < L
                                       /\ L < b
                                       /\ complete_mapping[L] = named[a] + (L - a)

\* A matching range whose interpolation replaced the destination an anchor
\* gave to a page inside it.
C2_Witness ==
    /\ fn = "build_page_mapping"
    /\ pc = "done"
    /\ Cardinality(ExplicitRanges(hyperlinks)) = 1
    /\ LET r      == CHOOSE j \in ExplicitRanges(hyperlinks) : TRUE
           m      == RangeMatch(strip(hyperlinks[r].text))
           L0     == int(m.g1)
           L1     == int(m.g2)
           P0     == hyperlinks[r].page
           others == Namers(fn, hyperlinks, L1) \ {r}
       IN  /\ others # {}
           /\ L1 - L0 = hyperlinks[Max(others)].page - P0
           /\ \E j \in 1..Len(hyperlinks) :
                 \E L \in NamedKeys(fn, hyperlinks[j]) :
                     /\ L0 < L
                     /\ L < L1
                     /\ hyperlinks[j].page # P0 + (L - L0)
                     /\ complete_mapping[L] = P0 + (L - L0)

(***************************************************************************)
(* C3.  Last writer wins: in both builders the returned mapping holds, for *)
(* every logical page an anchor names directly, the destination of the     *)
(* last anchor that names it.                                              *)
(***************************************************************************)
C3_LastWriterWins ==
    pc = "done" =>
        \A L \in AllNamed(fn, hyperlinks) :
            /\ L \in DOMAIN complete_mapping
            /\ complete_mapping[L] = LastWriter(fn, hyperlinks)[L]

(***************************************************************************)
(* C6.  An anchor of build_page_mapping whose label is a comma list of two *)
(* or more integers contributes no entry (the returned mapping is that of  *)
(* the sequence without the anchor) and prints exactly one warning, its    *)
(* own.                                                                    *)
(***************************************************************************)
C6_CommaListIgnored ==
    (fn = "build_page_mapping" /\ pc = "done") =>
        \A i \in 1..Len(hyperlinks) :
            IsCommaList(hyperlinks[i].text) =>
                LET without == build_page_mapping(RemoveAt(hyperlinks, i))
                    own     == [kind |-> "multiple_pages",
                                text |-> strip(hyperlinks[i].text),
                                page |-> hyperlinks[i].page]
                IN  /\ complete_mapping = without.result
                    /\ Len(warnings) = Len(without.warnings) + 1
                    /\ \E k \in 1..Len(warnings) :
                          /\ warnings[k] = own
                          /\ RemoveAt(warnings, k) = without.warnings

\* A comma list among anchors that do build a mapping.
C6_Witness ==
    /\ fn = "build_page_mapping"
    /\ pc = "done"
    /\ \E i \in 1..Len(hyperlinks) : IsCommaList(hyperlinks[i].text)
    /\ Cardinality(DOMAIN complete_mapping) >= 2
    /\ Len(warnings) = 1

(***************************************************************************)
(* C7.  As claimed: in build_page_mapping a label that matches none of     *)
(* the rules 1-5 and begins with a digit is mapped as the single page of   *)
(* its leading digits; one that does not begin with a digit contributes    *)
(* nothing and prints no warning.                                          *)
(***************************************************************************)
C7_Fallback ==
    (fn = "build_page_mapping" /\ pc = "done") =>
        \A i \in 1..Len(hyperlinks) :
            LET t     == strip(hyperlinks[i].text)
                match == LeadingDigits(t)
            IN  ~MatchesRules1to5(t) =>
                    IF match.matched
                    THEN /\ int(match.g1) \in DOMAIN complete_mapping
                         /\ Len(hyperlinks) = 1 =>
                                complete_mapping[int(match.g1)] = hyperlinks[i].page
                    ELSE LET without == build_page_mapping(RemoveAt(hyperlinks, i))
                         IN  /\ complete_mapping = without.result
                             /\ warnings = without.warnings

(***************************************************************************)
(* C10.  The two builders agree: on the same anchors (trimmed labels not   *)
(* empty, destinations >= 1) build_theirs_mapping_from_hyperlinks returns  *)
(* the mapping build_page_mapping returns.                                 *)
(***************************************************************************)
C10_BuildersAgree ==
    (/\ pc = "done"
     /\ \A j \in 1..Len(hyperlinks) :
           strip(hyperlinks[j].text) # <<>> /\ hyperlinks[j].page >= 1) =>
        complete_mapping =
            IF fn = "build_page_mapping"
            THEN build_theirs_mapping(hyperlinks)
            ELSE build_page_mapping(hyperlinks).result

(***************************************************************************)
(* Vocabulary of the offset strategy.                                      *)
(***************************************************************************)
\* The places <<page, link>> of the anchors labelled "1" inside the scan
\* window of build_yours_mapping: links of the two kinds, with a destination.
OneAnchors(d) ==
    {q \in (1..Min(ScanWindowYours, Len(d.pages))) \X (1..MaxLinks) :
        /\ q[2] <= Len(d.pages[q[1]])
        /\ IsGotoLink(d.pages[q[1]][q[2]])
        /\ DestPage(d.pages[q[1]][q[2]]) > 0
        /\ strip(d.pages[q[1]][q[2]].text) = <<"1">>}

\* The first of them in page-then-link order.
FirstOneAnchor(d) ==
    LET q == CHOOSE a \in OneAnchors(d) :
                 \A b \in OneAnchors(d) :
                     a[1] < b[1] \/ (a[1] = b[1] /\ a[2] <= b[2])
    IN  d.pages[q[1]][q[2]]

(***************************************************************************)
(* C4.  build_yours_mapping returns exactly the keys 1..max_logical_page,  *)
(* each L mapped to L + offset for one offset >= 0: the 1-based            *)
(* destination, minus one, of the first anchor labelled "1" in the first   *)
(* 50 pages, or, when there is none, the default offset with one warning.  *)
(***************************************************************************)
C4_OffsetMapping ==
    (fn = "build_yours_mapping" /\ pc = "returned") =>
        /\ DOMAIN complete_mapping = 1..max_logical_page
        /\ \A L \in 1..max_logical_page : complete_mapping[L] = L + offset
        /\ offset >= 0
        /\ IF OneAnchors(doc) # {}
           THEN /\ offset = DestPage(FirstOneAnchor(doc)) - 1
                /\ warnings = <<>>
           ELSE /\ offset = DefaultOffset
                /\ Len(warnings) = 1
                /\ warnings[1].kind = "offset_not_detected"

\* Two anchors labelled "1" with different destinations in the window: the
\* first decides.
C4_Witness ==
    /\ fn = "build_yours_mapping"
    /\ pc = "returned"
    /\ max_logical_page = DefaultMaxLogicalPage
    /\ \E a, b \in OneAnchors(doc) :
          DestPage(doc.pages[a[1]][a[2]]) # DestPage(doc.pages[b[1]][b[2]])
    /\ offset # DefaultOffset

(***************************************************************************)
(* C5.  As claimed: when the anchor labelled "1" the scan finds has the    *)
(* raw 0-based destination 143, the offset is 142 and mapping[219] = 361.  *)
(***************************************************************************)
C5_AsClaimed ==
    (/\ fn = "build_yours_mapping"
     /\ pc = "returned"
     /\ max_logical_page >= 219
     /\ OneAnchors(doc) # {}
     /\ PageVal(FirstOneAnchor(doc)) = 143) =>
        /\ offset = 142
        /\ complete_mapping[219] = 361

(***************************************************************************)
(* C5, amended.  When the anchor labelled "1" the scan finds has the raw   *)
(* 0-based destination 142, that is the 1-based destination 143, the       *)
(* offset is 142 and mapping[219] = 361; the raw destination 143 gives the *)
(* offset 143 and mapping[219] = 362.                                      *)
(***************************************************************************)
C5_OffsetArithmetic ==
    (/\ fn = "build_yours_mapping"
     /\ pc = "returned"
     /\ max_logical_page >= 219
     /\ OneAnchors(doc) # {}
     /\ FirstOneAnchor(doc).kind = "LINK_GOTO") =>
        /\ PageVal(FirstOneAnchor(doc)) = 142 =>
              offset = 142 /\ complete_mapping[219] = 361
        /\ PageVal(FirstOneAnchor(doc)) = 143 =>
              offset = 143 /\ complete_mapping[219] = 362

\* The scan found the anchor with the raw destination 142.
C5_Witness ==
    /\ fn = "build_yours_mapping"
    /\ pc = "returned"
    /\ max_logical_page >= 219
    /\ OneAnchors(doc) # {}
    /\ FirstOneAnchor(doc).kind = "LINK_GOTO"
    /\ PageVal(FirstOneAnchor(doc)) = 142
    /\ complete_mapping[219] = 361

(***************************************************************************)
(* C8.  Whenever control has left a scanning function, by its return or by *)
(* an exception of the link-listing or text-extraction service, the        *)
(* document handle is closed.                                              *)
(***************************************************************************)
C8_HandleReleased ==
    pc \in {"returned", "done", "raised"} => ~docOpen

====
